---- MODULE Spec2Model ----
(***************************************************************************)
(* Model of flightradar24_client/fr24_flights.py: the feed                 *)
(* (Flightradar24FlightsFeed), its entries (Flightradar24FeedEntry) and    *)
(* the aggregator (Flightradar24FlightsFeedAggregator).                    *)
(*                                                                         *)
(* Python values.  An optional value is None (the empty tuple) or Some(v)  *)
(* (a one-element tuple); JSON null decodes to None.  A list is a          *)
(* sequence, a dict a function.  TLA+ has one empty function, so the empty *)
(* list [] and the empty dict {} are the same value Some(<<>>); the code   *)
(* never tells them apart (both are falsy and iterate over nothing).       *)
(* A call that can raise yields [raised |-> name of the exception or "",   *)
(* value |-> the value returned].                                          *)
(***************************************************************************)
EXTENDS Integers, Sequences, FiniteSets, TLC

\* ------------------------------------------------------------------ bounds

\* update() calls in a behaviour of Spec.
MaxUpdates == 3

\* update() calls in a behaviour of SpecHist (more than the stack holds).
MaxHistUpdates == 12

\* ------------------------------------------------------------- constants

UPDATE_OK == "OK"

UPDATE_ERROR == "ERROR"

DEFAULT_AGGREGATOR_STACK_SIZE == 10

\* ---------------------------------------------------------- Python values

None == <<>>

Some(v) == <<v>>

\* bool(x) of an Optional[str]: None and "" are falsy.
bool_str(x) == x # None /\ x[1] # ""

\* bool(x) of an optional number: None and 0 are falsy.
bool_num(x) == x # None /\ x[1] # 0

Raise(exc) == [raised |-> exc, value |-> None]

Return(v) == [raised |-> "", value |-> v]

Abs(i) == IF i < 0 THEN -i ELSE i

\* Great-circle distance of two points on one meridian, where haversine gives
\* R * dphi, 111.195 km for each degree of latitude.  Distances and the
\* radius are integers in metres here (the code's floats are km); latitudes
\* are whole degrees.  A coordinate that is None makes the arithmetic raise
\* TypeError.
haversine(point1, point2) ==
  IF point2[1] = None \/ point2[2] = None
  THEN Raise("TypeError")
  ELSE Return(111195 * Abs(point1[1] - point2[1][1]))

\* ------------------------------------------------- Flightradar24FeedEntry

\* bool(self._data): the dict _parse builds always has ten keys; an entry
\* made of an empty dict has none.
EmptyData == <<>>

Flightradar24FeedEntry(home_coordinates, data) ==
  [_home_coordinates |-> home_coordinates, _data |-> data]

override_noop(entry, key, value) == entry

override(entry, key, value) ==
  IF entry._data # EmptyData
  THEN [entry EXCEPT !._data = [@ EXCEPT ![key] = value]]
  ELSE entry

\* Some(<<latitude, longitude>>), a tuple even when a component is None.
coordinates(entry) ==
  IF entry._data # EmptyData
  THEN Some(<<entry._data.latitude, entry._data.longitude>>)
  ELSE None

distance_to_home(entry) ==
  IF coordinates(entry) = None
  THEN Raise("TypeError")
  ELSE haversine(entry._home_coordinates, coordinates(entry)[1])

external_id(entry) ==
  IF entry._data # EmptyData THEN entry._data.mode_s ELSE None

altitude(entry) ==
  IF entry._data # EmptyData THEN entry._data.altitude ELSE None

callsign(entry) ==
  IF entry._data # EmptyData THEN entry._data.callsign ELSE None

\* ----------------------------------------------- Flightradar24FlightsFeed

\* Positions of a feed record that _parse reads (Python indices, from 0).
ParsedPositions == {0, 1, 2, 3, 4, 5, 6, 10, 15, 16}

\* json.loads and the loop over the object's values, in document order.
\* text is [valid |-> is the body JSON, records |-> the values of the
\* JSON object].  data_entry[p] raises IndexError when p >= len(data_entry).
_parse(text) ==
  IF ~text.valid
  THEN Raise("JSONDecodeError")
  ELSE IF \E i \in 1..Len(text.records) :
            \E p \in ParsedPositions : p >= Len(text.records[i])
  THEN Raise("IndexError")
  ELSE Return([i \in 1..Len(text.records) |->
         LET data_entry == text.records[i] IN
         [mode_s    |-> data_entry[1],
          latitude  |-> data_entry[2],
          longitude |-> data_entry[3],
          track     |-> data_entry[4],
          altitude  |-> data_entry[5],
          speed     |-> data_entry[6],
          squawk    |-> data_entry[7],
          updated   |-> data_entry[11],
          vert_rate |-> data_entry[16],
          callsign  |-> data_entry[17]]])

\* What one call returns or raises: status and data are those of a return.
Returned(status, data) == [raised |-> "", status |-> status, data |-> data]

Raised(exc) == [raised |-> exc, status |-> "", data |-> None]

\* session.send and the handlers of _fetch.  response is [exception |-> the
\* send raised a RequestException (connection refused, timeout), ok |->
\* response.ok (a 2xx status), text |-> the body].  Only RequestException
\* and JSONDecodeError are caught.
_fetch(response) ==
  IF response.exception
  THEN Returned(UPDATE_ERROR, None)
  ELSE IF response.ok
  THEN LET entries == _parse(response.text) IN
       IF entries.raised = "JSONDecodeError"
       THEN Returned(UPDATE_ERROR, None)
       ELSE IF entries.raised # ""
       THEN Raised(entries.raised)
       ELSE Returned(UPDATE_OK, Some(entries.value))
  ELSE Returned(UPDATE_ERROR, None)

\* if self._filter_radius: a radius of None or 0 is falsy.
radius_check(filter_radius) == bool_num(filter_radius)

\* The three filters in order; a later filter sees what the earlier kept.
\* None > 0 raises TypeError, and so does the distance of a None coordinate.
_filter_entries(entries, filter_radius) ==
  LET with_coordinates ==
        SelectSeq(entries, LAMBDA entry : coordinates(entry) # None)
      airborne ==
        SelectSeq(with_coordinates, LAMBDA entry : altitude(entry)[1] > 0)
      within ==
        SelectSeq(airborne, LAMBDA entry :
          distance_to_home(entry).value <= filter_radius[1])
  IN IF \E i \in 1..Len(with_coordinates) :
          altitude(with_coordinates[i]) = None
     THEN Raise("TypeError")
     ELSE IF radius_check(filter_radius)
     THEN IF \E i \in 1..Len(airborne) :
               distance_to_home(airborne[i]).raised # ""
          THEN Raise("TypeError")
          ELSE Return(within)
     ELSE Return(airborne)

\* {entry.external_id: entry for entry in filtered_entries}: for an
\* identifier that occurs twice the last entry wins.
index_by_external_id(filtered_entries) ==
  [key \in {external_id(filtered_entries[i]) : i \in 1..Len(filtered_entries)} |->
     LET last == CHOOSE i \in 1..Len(filtered_entries) :
                   /\ external_id(filtered_entries[i]) = key
                   /\ \A j \in (i + 1)..Len(filtered_entries) :
                        external_id(filtered_entries[j]) # key
     IN filtered_entries[last]]

\* Flightradar24FlightsFeed.update.
feed_update(home_coordinates, filter_radius, response) ==
  LET fetched == _fetch(response) IN
  IF fetched.raised # ""
  THEN fetched
  ELSE IF fetched.status = UPDATE_OK
  THEN IF fetched.data[1] # <<>>
       THEN LET feed_entries ==
                  [i \in 1..Len(fetched.data[1]) |->
                     Flightradar24FeedEntry(home_coordinates, fetched.data[1][i])]
                filtered_entries == _filter_entries(feed_entries, filter_radius)
            IN IF filtered_entries.raised # ""
               THEN Raised(filtered_entries.raised)
               ELSE Returned(UPDATE_OK,
                             Some(index_by_external_id(filtered_entries.value)))
       ELSE Returned(UPDATE_OK, None)
  ELSE Returned(UPDATE_ERROR, None)

\* ------------------------------------- Flightradar24FlightsFeedAggregator

\* collections.deque(10 * [[]], 10): ten slots, each the empty list.
initial_stack == [i \in 1..DEFAULT_AGGREGATOR_STACK_SIZE |-> Some(<<>>)]

\* self._stack.pop() drops the rightmost slot, appendleft(data) adds on the
\* left.
stack_push(stack, data) == <<data>> \o SubSeq(stack, 1, Len(stack) - 1)

\* Keep record of callsigns (the first if of the loop).
record_callsign_overwrite(callsigns, key, entry) ==
  IF bool_str(callsign(entry))
  THEN [k \in DOMAIN callsigns \cup {key} |->
          IF k = key THEN callsign(entry)[1] ELSE callsigns[k]]
  ELSE callsigns

record_callsign(callsigns, key, entry) ==
  IF key \notin DOMAIN callsigns /\ bool_str(callsign(entry))
  THEN [k \in DOMAIN callsigns \cup {key} |->
          IF k = key THEN callsign(entry)[1] ELSE callsigns[k]]
  ELSE callsigns

\* Fill in callsign from previous update if currently missing (the second
\* if of the loop).
fill_callsign(callsigns, key, entry) ==
  IF ~bool_str(callsign(entry)) /\ key \in DOMAIN callsigns
  THEN override(entry, "callsign", Some(callsigns[key]))
  ELSE entry

\* for key in data: one key after the other, the memory written before it
\* is read.  Yields the memory and the dict after the loop; the entries are
\* changed in place, so the dict on the stack shows the changes too.
RECURSIVE fill_gaps(_, _, _)
fill_gaps(keys, callsigns, data) ==
  IF keys = {}
  THEN [callsigns |-> callsigns, data |-> data]
  ELSE LET key == CHOOSE k \in keys : TRUE
           recorded == record_callsign(callsigns, key, data[key])
           filled == fill_callsign(recorded, key, data[key])
       IN fill_gaps(keys \ {key}, recorded, [data EXCEPT ![key] = filled])

\* Flightradar24FlightsFeedAggregator.update, given what the feed's update
\* gave: the stack and the memory after the call, and what the call returns
\* or raises.  Iterating over None raises TypeError, after the push.
aggregator_update(stack, callsigns, fed) ==
  IF fed.raised # ""
  THEN [stack |-> stack, callsigns |-> callsigns, result |-> fed]
  ELSE LET pushed == IF fed.status = UPDATE_OK
                     THEN stack_push(stack, fed.data)
                     ELSE stack
       IN IF fed.data = None
          THEN [stack |-> pushed, callsigns |-> callsigns,
                result |-> Raised("TypeError")]
          ELSE LET filled == fill_gaps(DOMAIN fed.data[1], callsigns, fed.data[1])
               IN [stack |-> IF fed.status = UPDATE_OK
                             THEN [pushed EXCEPT ![1] = Some(filled.data)]
                             ELSE pushed,
                   callsigns |-> filled.callsigns,
                   result |-> Returned(fed.status, Some(filled.data))]

\* ------------------------------------------------------------ the inputs

\* The reference coordinate of the configuration, in whole degrees.
home == <<0, 0>>

\* A feed record of 17 positions; positions 7..9 and 11..14 are unused.
RawRecord(mode_s, latitude, longitude, alt, cs) ==
  <<mode_s, latitude, longitude, Some(90), alt, Some(250), Some("1200"),
    Some(0), Some(0), Some(0), Some(1700000000),
    Some(0), Some(0), Some(0), Some(0), Some(800), cs>>

Callsigns == {Some("UAL1"), Some("UAL2"), Some(""), None}

\* Aircraft A, overhead and airborne, with each callsign.
RecordsA == {RawRecord(Some("A"), Some(0), Some(0), Some(5000), cs) : cs \in Callsigns}

\* Aircraft B: one degree north (111.195 km) with a callsign, two degrees
\* north without one.
RecordsB ==
  {RawRecord(Some("B"), Some(1), Some(0), Some(5000), Some("BAW1")),
   RawRecord(Some("B"), Some(2), Some(0), Some(5000), Some(""))}

\* Records that lack something: on the ground, no position, no altitude,
\* an empty or null identifier, and one of 16 positions only.
RecordsOdd ==
  {RawRecord(Some("C"), Some(0), Some(0), Some(0), Some("GND1")),
   RawRecord(Some("C"), None, None, Some(5000), Some("")),
   RawRecord(Some("C"), Some(0), Some(0), None, Some("")),
   RawRecord(Some(""), Some(0), Some(0), Some(5000), Some("NOID")),
   RawRecord(None, Some(0), Some(0), Some(5000), Some("")),
   SubSeq(RawRecord(Some("C"), Some(0), Some(0), Some(5000), Some("")), 1, 16)}

\* The values of the JSON object of a body: none, one record, or A and B.
Bodies ==
  {<<>>} \cup {<<r>> : r \in RecordsA \cup RecordsB \cup RecordsOdd}
         \cup {<<a, b>> : a \in RecordsA, b \in RecordsB}

\* What one round trip gives: a RequestException, a non-2xx status, a 2xx
\* body that is no JSON, or a 2xx body that is a JSON object.
Responses ==
  {[exception |-> TRUE, ok |-> FALSE, text |-> [valid |-> FALSE, records |-> <<>>]],
   [exception |-> FALSE, ok |-> FALSE, text |-> [valid |-> FALSE, records |-> <<>>]],
   [exception |-> FALSE, ok |-> TRUE, text |-> [valid |-> FALSE, records |-> <<>>]]}
  \cup {[exception |-> FALSE, ok |-> TRUE, text |-> [valid |-> TRUE, records |-> b]] :
          b \in Bodies}

\* Radii of the configuration, in metres: none, 0, and 111.195 km.
Radii == {None, Some(0), Some(111195)}

\* Responses of the long runs: A with a callsign, B, and an empty object.
HistResponses ==
  {[exception |-> FALSE, ok |-> TRUE, text |-> [valid |-> TRUE, records |-> b]] :
     b \in {<<>>,
            <<RawRecord(Some("A"), Some(0), Some(0), Some(5000), Some("UAL1"))>>,
            <<RawRecord(Some("B"), Some(1), Some(0), Some(5000), Some("BAW1"))>>}}

\* ------------------------------------------------------ the state machine

VARIABLES
  _filter_radius,  \* the feed's radius, set at construction
  _stack,          \* the aggregator's deque, leftmost first
  _callsigns,      \* the aggregator's callsign memory
  response,        \* the round trip of the last update()
  fed,             \* what the feed's update() returned or raised in it
  result,          \* what the aggregator's update() returned or raised
  before,          \* _stack, _callsigns and seen when the last update() began
  seen,            \* identifiers a returned Ok result showed with a callsign
  ok_log,          \* data of the update() calls that returned Ok, latest first
  ok_count,        \* how many update() calls returned Ok
  updates          \* how many update() calls were made

vars == <<_filter_radius, _stack, _callsigns, response, fed, result, before,
          seen, ok_log, ok_count, updates>>

\* response before the first update().
NoResponse == [exception |-> FALSE, ok |-> FALSE, text |-> [valid |-> FALSE, records |-> <<>>]]

\* fed and result before the first update().
NoCall == [raised |-> "", status |-> "", data |-> None]

\* The aggregator and its feed after __init__, with one of the radii.
Constructed(radii) ==
  /\ _filter_radius \in radii
  /\ _stack = initial_stack
  /\ _callsigns = <<>>
  /\ response = NoResponse
  /\ fed = NoCall
  /\ result = NoCall
  /\ before = [stack |-> initial_stack, callsigns |-> <<>>, seen |-> {}]
  /\ seen = {}
  /\ ok_log = <<>>
  /\ ok_count = 0
  /\ updates = 0

ReturnedOk(r) == r.raised = "" /\ r.status = UPDATE_OK

\* One call of the aggregator's update() with the round trip r.
update(r) ==
  \E f \in {feed_update(home, _filter_radius, r)} :
  \E after \in {aggregator_update(_stack, _callsigns, f)} :
  \E ok \in {ReturnedOk(after.result)} :
     /\ response' = r
     /\ fed' = f
     /\ _stack' = after.stack
     /\ _callsigns' = after.callsigns
     /\ result' = after.result
     /\ before' = [stack |-> _stack, callsigns |-> _callsigns, seen |-> seen]
     /\ seen' = IF ok /\ after.result.data # None
                THEN seen \cup {k \in DOMAIN after.result.data[1] :
                                  bool_str(callsign(after.result.data[1][k]))}
                ELSE seen
     /\ ok_log' = IF ok
                  THEN SubSeq(<<after.result.data>> \o ok_log, 1,
                              IF Len(ok_log) < DEFAULT_AGGREGATOR_STACK_SIZE
                              THEN Len(ok_log) + 1
                              ELSE DEFAULT_AGGREGATOR_STACK_SIZE)
                  ELSE ok_log
     /\ ok_count' = IF ok THEN ok_count + 1 ELSE ok_count
     /\ updates' = updates + 1
     /\ UNCHANGED _filter_radius

Init == Constructed(Radii)

Update == updates < MaxUpdates /\ \E r \in Responses : update(r)

Next == Update

Spec == Init /\ [][Next]_vars

InitHist == Constructed({None})

UpdateHist == updates < MaxHistUpdates /\ \E r \in HistResponses : update(r)

NextHist == UpdateHist

SpecHist == InitHist /\ [][NextHist]_vars

\* ------------------------------------------------------------ the claims

\* An update() has been called: response, fed, result and before are its.
Called == updates > 0

\* The round trip failed at the transport level.
TransportFailure == response.exception \/ ~response.ok

\* The entries update() builds from the records of the response.
ParsedEntries ==
  LET parsed == _parse(response.text).value IN
  [i \in 1..Len(parsed) |-> Flightradar24FeedEntry(home, parsed[i])]

\* C1: an update() whose fetch fails at the transport level returns the
\* error outcome with no entries, and the callsign memory and the history
\* stack are what they were before the call.
C1_TransportFailureReturnsError ==
  (Called /\ TransportFailure) =>
    /\ result.raised = ""
    /\ result.status = UPDATE_ERROR
    /\ result.data \in {None, Some(<<>>)}
    /\ _stack = before.stack
    /\ _callsigns = before.callsigns

\* C2: when an earlier update() returned Ok with identifier X carrying a
\* non-empty callsign, and this update() returns Ok with X whose callsign
\* in the feed is empty or absent, the entry returned for X reads the
\* callsign remembered for X.
C2_CallsignRepair ==
  (Called /\ ReturnedOk(result) /\ result.data # None) =>
    \A X \in DOMAIN result.data[1] :
      (X \in before.seen /\ ~bool_str(callsign(fed.data[1][X]))) =>
        /\ X \in DOMAIN before.callsigns
        /\ before.callsigns[X] # ""
        /\ callsign(result.data[1][X]) = Some(before.callsigns[X])
        /\ _callsigns[X] = before.callsigns[X]

\* The second cycle of the repair: A was returned with UAL1 before, comes
\* without a callsign now, and is returned reading UAL1.
C2_Witness ==
  /\ Called /\ ReturnedOk(result) /\ result.data # None
  /\ Some("A") \in DOMAIN result.data[1]
  /\ Some("A") \in before.seen
  /\ ~bool_str(callsign(fed.data[1][Some("A")]))
  /\ before.callsigns[Some("A")] = "UAL1"
  /\ callsign(result.data[1][Some("A")]) = Some("UAL1")

\* C3: an identifier in the callsign memory is never removed and its
\* callsign never changes, also when a later cycle yields the identifier
\* with another non-empty callsign; every stored callsign is non-empty.
C3_MemoryFirstWriteWins ==
  /\ \A k \in DOMAIN before.callsigns :
       k \in DOMAIN _callsigns /\ _callsigns[k] = before.callsigns[k]
  /\ \A k \in DOMAIN _callsigns : _callsigns[k] # ""

\* A is remembered as UAL1, the cycle yields A with UAL2 and returns Ok,
\* and the memory still says UAL1.
C3_Witness ==
  /\ Called /\ ReturnedOk(result) /\ result.data # None
  /\ Some("A") \in DOMAIN before.callsigns
  /\ before.callsigns[Some("A")] = "UAL1"
  /\ Some("A") \in DOMAIN result.data[1]
  /\ callsign(fed.data[1][Some("A")]) = Some("UAL2")
  /\ _callsigns[Some("A")] = "UAL1"

\* C4: the history stack never holds more than the capacity of poll
\* results, and after more than capacity successful updates it holds the
\* results of the most recent capacity successful updates, latest first.
C4_StackHoldsLatestResults ==
  /\ Len(_stack) <= DEFAULT_AGGREGATOR_STACK_SIZE
  /\ ok_count > DEFAULT_AGGREGATOR_STACK_SIZE => _stack = ok_log

\* C5: an update that fetches and parses the feed returns Ok with a
\* mapping, possibly empty, from the feed's update() and from the
\* aggregator's update().
C5_ParsedFeedReturnsOkMapping ==
  (Called /\ ~response.exception /\ response.ok
          /\ _parse(response.text).raised = "") =>
    /\ ReturnedOk(fed) /\ fed.data # None
    /\ ReturnedOk(result) /\ result.data # None

\* The body has a record too short for the positions read.
ShortRecord ==
  /\ response.text.valid
  /\ \E i \in 1..Len(response.text.records) : Len(response.text.records[i]) < 17

\* C6: a connection failure, a non-2xx response, a malformed JSON body and
\* a record of fewer than 17 positions all make the feed's update() return
\* the Error outcome with no payload; none raises.
C6_FailuresReturnError ==
  (Called /\ (response.exception \/ ~response.ok \/ ~response.text.valid
              \/ ShortRecord)) =>
    fed = Returned(UPDATE_ERROR, None)

\* No entry of the mapping lacks its latitude or its longitude.
AllHaveCoordinates(r) ==
  (r.raised = "" /\ r.data # None) =>
    \A k \in DOMAIN r.data[1] :
      /\ r.data[1][k]._data.latitude # None
      /\ r.data[1][k]._data.longitude # None

\* C7: an entry whose latitude or longitude is absent is in no result of a
\* poll, with or without a radius.
C7_NoEntryWithoutCoordinates ==
  Called => AllHaveCoordinates(fed) /\ AllHaveCoordinates(result)

\* C8: with a radius supplied, 0 included, an entry with coordinates and an
\* altitude above 0 is retained exactly if its distance to the reference
\* coordinate is at most the radius.
C8_RadiusFilter ==
  (Called /\ _filter_radius # None /\ ReturnedOk(fed) /\ fed.data # None) =>
    \A i \in 1..Len(ParsedEntries) :
      LET entry == ParsedEntries[i] IN
      ( /\ entry._data.latitude # None
        /\ entry._data.longitude # None
        /\ altitude(entry) # None
        /\ altitude(entry)[1] > 0 ) =>
        ( (\E k \in DOMAIN fed.data[1] : fed.data[1][k] = entry)
          <=> distance_to_home(entry).value <= _filter_radius[1] )

\* C9: an update() either returns Ok with its result, which is then the
\* head of the history stack, or leaves the history stack and the callsign
\* memory as they were.
C9_UpdateIsAtomic ==
  Called =>
    \/ ReturnedOk(result) /\ _stack[1] = result.data
    \/ _stack = before.stack /\ _callsigns = before.callsigns

\* Every key of the mapping is a non-empty identifier, that of its entry.
KeysAreIdentifiers(r) ==
  (ReturnedOk(r) /\ r.data # None) =>
    \A k \in DOMAIN r.data[1] :
      bool_str(k) /\ external_id(r.data[1][k]) = k

\* C10: in every result returned every entry's identifier is non-empty
\* and is its key; a record with an empty or null identifier is in no
\* result and not in the callsign memory.
C10_IdentifiersNonEmpty ==
  /\ Called => KeysAreIdentifiers(fed) /\ KeysAreIdentifiers(result)
  /\ \A k \in DOMAIN _callsigns : bool_str(k)

====
